---- MODULE Spec2Model ----
(***************************************************************************)
(* A model of the decorators of the `defunct` package:                     *)
(*   - autocache (decorators.py), the disk-backed memoisation decorator,   *)
(*     with the default text loader / dumper of utils.py;                  *)
(*   - watch_for (decorators.py), the exception-context decorator;         *)
(*   - AverageRuntime (de.py), the running-average timing decorator.       *)
(*                                                                         *)
(* Text is modelled as a sequence of one-character strings, a list of      *)
(* lines as a sequence of such texts.  A file holds one text.              *)
(***************************************************************************)
EXTENDS Integers, Sequences, FiniteSets, TLC

VARIABLES
    cfg,        \* autocache: the arguments autocache(...) was built with, and the handler
    deco,       \* autocache: what decorator(handler) produced
    fs,         \* the file system: path -> [exists, text]
    last,       \* autocache: the record of the latest wrapper call
    t_in,       \* text round trip: the value handed to text_dumper
    t_file,     \* text round trip: the file written by text_dumper
    t_out,      \* text round trip: the value text_loader returned
    w_signals,  \* watch_for: the tuple of watched exception classes
    w_deco,     \* watch_for: what watch_for(*signals) produced
    w_last,     \* watch_for: the record of the latest wrapper call
    calls,      \* AverageRuntime._calls
    xt,         \* AverageRuntime._xt
    xtm1,       \* AverageRuntime._xtm1
    observed,   \* AverageRuntime: the runtimes observed since construction or reset
    returned    \* AverageRuntime: the second element returned by the latest call

cacheVars == <<cfg, deco, fs, last>>
textVars  == <<t_in, t_file, t_out>>
watchVars == <<w_signals, w_deco, w_last>>
avgVars   == <<calls, xt, xtm1, observed, returned>>
vars == <<cfg, deco, fs, last, t_in, t_file, t_out,
          w_signals, w_deco, w_last, calls, xt, xtm1, observed, returned>>

(***************************************************************************)
(* Bounds of the model.                                                    *)
(***************************************************************************)
\* the longest list of lines a function returns
MaxLines == 2
\* the most AverageRuntime calls between two resets
MaxRuns == 4
\* the longest observed runtime, in time units
MaxObs == 2

None == "None"
NL == "\n"

\* the texts the elements of a returned list are drawn from:
\* "a\n", "b\n", "\n", "a", "" and "a\nb"
Texts == { <<"a", NL>>, <<"b", NL>>, <<NL>>, <<"a">>, <<>>, <<"a", NL, "b">> }

SeqsUpTo(S, n) == UNION { [1..k -> S] : k \in 0..n }

\* the lists of text a function may return
Values == SeqsUpTo(Texts, MaxLines)

(***************************************************************************)
(* utils.py: the default dumper and loader.                                *)
(***************************************************************************)
RECURSIVE writelines(_)
\* file.writelines(lines): every element is written as it is, no separator added
writelines(lines) ==
    IF lines = <<>> THEN <<>>
    ELSE Head(lines) \o writelines(Tail(lines))

\* the index of the first newline of text s, or Len(s) when it has none
LineEnd(s) ==
    IF \E i \in 1..Len(s) : s[i] = NL
    THEN CHOOSE i \in 1..Len(s) : s[i] = NL /\ \A j \in 1..(i-1) : s[j] # NL
    ELSE Len(s)

RECURSIVE readlines(_)
\* file.readlines(): the text cut after every newline, the newline kept
readlines(s) ==
    IF s = <<>> THEN <<>>
    ELSE <<SubSeq(s, 1, LineEnd(s))>> \o readlines(SubSeq(s, LineEnd(s) + 1, Len(s)))

\* text_dumper(output_text, dump_station): the text the freshly opened file holds
text_dumper(output_text) == writelines(output_text)

\* text_loader(load_station): the value loaded from a file holding text s
text_loader(s) == readlines(s)

(***************************************************************************)
(* decorators.py: autocache.                                               *)
(***************************************************************************)
NotCallable == "notcallable"

\* callable(func)
callable(func) == func # NotCallable

\* the values read_as and write_as are drawn from
Modes == {"t", "b", "text"}

\* the arguments of autocache(...) and the handler the decorator is applied to
Configs ==
    [loader  : {"text_loader", NotCallable},
     dumper  : {"text_dumper", NotCallable},
     opener  : {"open", NotCallable},
     handler : {"function", NotCallable},
     read_as : Modes,
     write_as : Modes]

\* the paths cache_to is drawn from; the directory of the second does not exist
Paths == {"cached.txt", "nodir/cached.txt"}
DirExists(path) == path # "nodir/cached.txt"

NoFile == [exists |-> FALSE, text |-> <<>>]
File(text) == [exists |-> TRUE, text |-> text]

\* the arguments a wrapper call passes on to the handler: a list of lines
\* the handler returns as it is, or Boom, on which the handler raises
Boom == <<<<"!">>>>
HandlerArgs ==
    { <<>>,                           \* []
      << <<"a", NL>> >>,              \* ["a\n"]
      << <<"a", NL>>, <<"b", NL>> >>, \* ["a\n", "b\n"]
      << <<"a">>, <<"b">> >>,         \* ["a", "b"]
      << <<>> >>,                     \* [""]
      << <<"a", NL, "b">> >>,         \* ["a\nb"]
      Boom }

\* what the operating system does to the write side of one call:
\* open(path, 'w') may be refused, and a write may fail after k characters
Envs ==
    [wopen : {"ok", "PermissionError"}, write : {"ok"}, k : {0}]
    \cup [wopen : {"ok"}, write : {"OSError"}, k : 0..3]

\* the body of decorator(handler) up to the definition of the wrapper
decorator_any(c) ==
    IF ~ (callable(c.loader) \/ callable(c.dumper) \/ callable(c.opener) \/ callable(c.handler))
    THEN "TypeError"
    ELSE IF ~ (c.read_as \in {"b", "t"} \/ c.write_as \in {"b", "t"})
    THEN "ValueError"
    ELSE "wrapper"

decorator(c) ==
    IF ~ (callable(c.loader) /\ callable(c.dumper) /\ callable(c.opener) /\ callable(c.handler))
    THEN "TypeError"
    ELSE IF ~ (c.read_as \in {"b", "t"} /\ c.write_as \in {"b", "t"})
    THEN "ValueError"
    ELSE "wrapper"

\* handler(*args, **kwargs): a deterministic function of its arguments
handler(args) ==
    IF args = Boom
    THEN [raised |-> TRUE, exc |-> "RuntimeError", out |-> <<>>]
    ELSE [raised |-> FALSE, exc |-> None, out |-> args]

\* opener(cache_to, 'r' + read_as) for the built-in open
open_r(c, files, path) ==
    IF ~ callable(c.opener) THEN [exc |-> "TypeError: not callable", text |-> <<>>]
    ELSE IF c.read_as \notin {"b", "t"} THEN [exc |-> "ValueError: invalid mode", text |-> <<>>]
    ELSE IF ~ DirExists(path) \/ ~ files[path].exists
         THEN [exc |-> "FileNotFoundError", text |-> <<>>]
    ELSE [exc |-> None, text |-> files[path].text]

\* opener(cache_to, 'w' + write_as) for the built-in open: creates or truncates
open_w(c, files, path, env) ==
    IF ~ callable(c.opener) THEN [exc |-> "TypeError: not callable", files |-> files]
    ELSE IF c.write_as \notin {"b", "t"} THEN [exc |-> "ValueError: invalid mode", files |-> files]
    ELSE IF ~ DirExists(path) THEN [exc |-> "FileNotFoundError", files |-> files]
    ELSE IF env.wopen # "ok" THEN [exc |-> env.wopen, files |-> files]
    ELSE [exc |-> None, files |-> [files EXCEPT ![path] = File(<<>>)]]

Min(a, b) == IF a < b THEN a ELSE b

\* dumper(out, dmp) on the freshly opened file: the exception raised, and the
\* text the file holds when the with-block is left
dump(c, out, env) ==
    IF ~ callable(c.dumper) THEN [exc |-> "TypeError: not callable", text |-> <<>>]
    ELSE IF c.write_as = "b" /\ out # <<>>
         THEN [exc |-> "TypeError: a bytes-like object is required", text |-> <<>>]
    ELSE IF env.write # "ok"
         THEN [exc |-> env.write,
               text |-> SubSeq(text_dumper(out), 1, Min(env.k, Len(text_dumper(out))))]
    ELSE [exc |-> None, text |-> text_dumper(out)]

\* loader(lod): the exception raised, the lines loaded, and whether they are bytes
load(c, text) ==
    IF ~ callable(c.loader) THEN [exc |-> "TypeError: not callable", value |-> <<>>, bytes |-> FALSE]
    ELSE [exc |-> None, value |-> text_loader(text),
          bytes |-> (c.read_as = "b" /\ text_loader(text) # <<>>)]

\* the record of a wrapper call: the files it leaves, the exception it raises
\* (None when it returns), the value it returns, whether the value is a list of
\* bytes, the number of handler calls and of opener calls, the arguments and the
\* result of the handler, and whether the artifact was loaded
Outcome(files, exc, value, bytes, hcalls, hargs, hret, read, opens) ==
    [files |-> files, exc |-> exc, value |-> value, bytes |-> bytes,
     hcalls |-> hcalls, hargs |-> hargs, hret |-> hret, read |-> read, opens |-> opens]

\* the except branch with every error of the write side swallowed
miss_swallow(c, files, args, cache_to, env, opens) ==
    LET h == handler(args)
        w == open_w(c, files, cache_to, env)
        d == dump(c, h.out, env)
        written == [w.files EXCEPT ![cache_to] = File(d.text)]
    IN  IF ~ callable(c.handler)
        THEN Outcome(files, "TypeError: not callable", <<>>, FALSE, 0, <<>>, <<>>, FALSE, opens)
        ELSE IF h.raised
        THEN Outcome(files, h.exc, <<>>, FALSE, 1, args, <<>>, FALSE, opens)
        ELSE IF w.exc # None
        THEN Outcome(files, None, h.out, FALSE, 1, args, h.out, FALSE, opens + 1)
        ELSE Outcome(written, None, h.out, FALSE, 1, args, h.out, FALSE, opens + 1)

\* the except branch with the artifact removed when the dumper fails
miss_cleanup(c, files, args, cache_to, env, opens) ==
    LET h == handler(args)
        w == open_w(c, files, cache_to, env)
        d == dump(c, h.out, env)
        written == [w.files EXCEPT ![cache_to] = File(d.text)]
        removed == [w.files EXCEPT ![cache_to] = NoFile]
    IN  IF ~ callable(c.handler)
        THEN Outcome(files, "TypeError: not callable", <<>>, FALSE, 0, <<>>, <<>>, FALSE, opens)
        ELSE IF h.raised
        THEN Outcome(files, h.exc, <<>>, FALSE, 1, args, <<>>, FALSE, opens)
        ELSE IF w.exc # None
        THEN Outcome(files, w.exc, <<>>, FALSE, 1, args, h.out, FALSE, opens + 1)
        ELSE IF d.exc # None
        THEN Outcome(removed, d.exc, <<>>, FALSE, 1, args, h.out, FALSE, opens + 1)
        ELSE Outcome(written, None, h.out, FALSE, 1, args, h.out, FALSE, opens + 1)

\* the except branch with the file opened for writing before the handler runs
miss_open_first(c, files, args, cache_to, env, opens) ==
    LET h == handler(args)
        w == open_w(c, files, cache_to, env)
        d == dump(c, h.out, env)
        written == [w.files EXCEPT ![cache_to] = File(d.text)]
    IN  IF ~ callable(c.handler)
        THEN Outcome(files, "TypeError: not callable", <<>>, FALSE, 0, <<>>, <<>>, FALSE, opens)
        ELSE IF w.exc # None
        THEN Outcome(files, w.exc, <<>>, FALSE, 0, <<>>, <<>>, FALSE, opens + 1)
        ELSE IF h.raised
        THEN Outcome(w.files, h.exc, <<>>, FALSE, 1, args, <<>>, FALSE, opens + 1)
        ELSE IF d.exc # None
        THEN Outcome(written, d.exc, <<>>, FALSE, 1, args, h.out, FALSE, opens + 1)
        ELSE Outcome(written, None, h.out, FALSE, 1, args, h.out, FALSE, opens + 1)

\* the except branch of the wrapper: compute, persist, return
\*     out = handler(*args, **kwargs)
\*     with opener(cache_to, 'w' + write_as) as dmp: dumper(out, dmp)
\*     return out
miss(c, files, args, cache_to, env, opens) ==
    LET h == handler(args)
        w == open_w(c, files, cache_to, env)
        d == dump(c, h.out, env)
        written == [w.files EXCEPT ![cache_to] = File(d.text)]
    IN  IF ~ callable(c.handler)
        THEN Outcome(files, "TypeError: not callable", <<>>, FALSE, 0, <<>>, <<>>, FALSE, opens)
        ELSE IF h.raised
        THEN Outcome(files, h.exc, <<>>, FALSE, 1, args, <<>>, FALSE, opens)
        ELSE IF w.exc # None
        THEN Outcome(files, w.exc, <<>>, FALSE, 1, args, h.out, FALSE, opens + 1)
        ELSE IF d.exc # None
        THEN Outcome(written, d.exc, <<>>, FALSE, 1, args, h.out, FALSE, opens + 1)
        ELSE Outcome(written, None, h.out, FALSE, 1, args, h.out, FALSE, opens + 1)

\* the try branch with the overwrite flag ignored
try_read_unforced(c, files, cache_to, overwrite) ==
    [exc |-> open_r(c, files, cache_to).exc,
     text |-> open_r(c, files, cache_to).text, opens |-> 1]

\* the try branch of the wrapper up to the loader: what the attempt to open
\* the artifact gives
\*     if overwrite: raise FileNotFoundError
\*     with opener(cache_to, 'r' + read_as) as lod: ...
try_read(c, files, cache_to, overwrite) ==
    IF overwrite THEN [exc |-> "FileNotFoundError", text |-> <<>>, opens |-> 0]
    ELSE [exc |-> open_r(c, files, cache_to).exc,
          text |-> open_r(c, files, cache_to).text, opens |-> 1]

\* the wrapper without its except clause: file-not-found reaches the caller
wrapper_uncaught(c, files, args, cache_to, overwrite, env) ==
    LET r == try_read(c, files, cache_to, overwrite)
        l == load(c, r.text)
    IN  IF r.exc # None
        THEN Outcome(files, r.exc, <<>>, FALSE, 0, <<>>, <<>>, FALSE, r.opens)
        ELSE IF l.exc # None
        THEN Outcome(files, l.exc, <<>>, FALSE, 0, <<>>, <<>>, TRUE, r.opens)
        ELSE Outcome(files, None, l.value, l.bytes, 0, <<>>, <<>>, TRUE, r.opens)

\* the wrapper with the arguments as a part of the cache key: an artifact
\* that does not hold the result for these arguments counts as a miss
wrapper_keyed(c, files, args, cache_to, overwrite, env) ==
    LET r == try_read(c, files, cache_to, overwrite)
        l == load(c, r.text)
    IN  IF r.exc = "FileNotFoundError"
        THEN miss(c, files, args, cache_to, env, r.opens)
        ELSE IF r.exc # None
        THEN Outcome(files, r.exc, <<>>, FALSE, 0, <<>>, <<>>, FALSE, r.opens)
        ELSE IF l.exc # None
        THEN Outcome(files, l.exc, <<>>, FALSE, 0, <<>>, <<>>, TRUE, r.opens)
        ELSE IF r.text # text_dumper(handler(args).out)
        THEN miss(c, files, args, cache_to, env, r.opens)
        ELSE Outcome(files, None, l.value, l.bytes, 0, <<>>, <<>>, TRUE, r.opens)

\* wrapper(*args, cache_to, overwrite, **kwargs)
wrapper(c, files, args, cache_to, overwrite, env) ==
    LET r == try_read(c, files, cache_to, overwrite)
        l == load(c, r.text)
    IN  IF r.exc = "FileNotFoundError"
        THEN miss(c, files, args, cache_to, env, r.opens)
        ELSE IF r.exc # None
        THEN Outcome(files, r.exc, <<>>, FALSE, 0, <<>>, <<>>, FALSE, r.opens)
        ELSE IF l.exc # None
        THEN Outcome(files, l.exc, <<>>, FALSE, 0, <<>>, <<>>, TRUE, r.opens)
        ELSE Outcome(files, None, l.value, l.bytes, 0, <<>>, <<>>, TRUE, r.opens)

\* no wrapper call has been made
NoCall ==
    [called |-> FALSE, path |-> "cached.txt", overwrite |-> FALSE, args |-> <<>>,
     exc |-> None, value |-> <<>>, bytes |-> FALSE,
     hcalls |-> 0, hargs |-> <<>>, hret |-> <<>>, read |-> FALSE, opens |-> 0,
     existed |-> FALSE, wopen |-> "ok", write |-> "ok"]

\* the artifacts that may lie on disk before the program starts
InitFiles == {NoFile, File(<<>>), File(<<"b">>)}

InitCache ==
    /\ cfg \in Configs
    /\ deco = None
    /\ fs \in {[p \in Paths |-> IF DirExists(p) THEN f ELSE NoFile] : f \in InitFiles}
    /\ last = NoCall

\* @autocache(...) applied to the handler
Decorate ==
    /\ deco = None
    /\ deco' = decorator(cfg)
    /\ UNCHANGED <<cfg, fs, last>>
    /\ UNCHANGED <<textVars, watchVars, avgVars>>

\* one call of the wrapper
Call(args, cache_to, overwrite, env) ==
    /\ deco = "wrapper"
    /\ LET o == wrapper(cfg, fs, args, cache_to, overwrite, env)
       IN  /\ fs' = o.files
           /\ last' = [called |-> TRUE, path |-> cache_to, overwrite |-> overwrite,
                       args |-> args, exc |-> o.exc, value |-> o.value, bytes |-> o.bytes,
                       hcalls |-> o.hcalls, hargs |-> o.hargs, hret |-> o.hret, read |-> o.read,
                       opens |-> o.opens, existed |-> fs[cache_to].exists,
                       wopen |-> env.wopen, write |-> env.write]
    /\ UNCHANGED <<cfg, deco>>
    /\ UNCHANGED <<textVars, watchVars, avgVars>>

NextCache ==
    \/ Decorate
    \/ \E args \in HandlerArgs, cache_to \in Paths, overwrite \in BOOLEAN, env \in Envs :
          Call(args, cache_to, overwrite, env)

IdleCache ==
    /\ cfg = [loader |-> "text_loader", dumper |-> "text_dumper", opener |-> "open",
              handler |-> "function", read_as |-> "t", write_as |-> "t"]
    /\ deco = None
    /\ fs = [p \in Paths |-> NoFile]
    /\ last = NoCall

(***************************************************************************)
(* utils.py: a value dumped with text_dumper and loaded with text_loader.  *)
(***************************************************************************)
NotLoaded == [loaded |-> FALSE, value |-> <<>>]

InitText ==
    /\ t_in \in Values
    /\ t_file = NoFile
    /\ t_out = NotLoaded

IdleText ==
    /\ t_in = <<>>
    /\ t_file = NoFile
    /\ t_out = NotLoaded

\* with open(path, 'wt') as dmp: text_dumper(t_in, dmp)
TextDump ==
    /\ ~ t_file.exists
    /\ t_file' = File(text_dumper(t_in))
    /\ UNCHANGED <<t_in, t_out>>
    /\ UNCHANGED <<cacheVars, watchVars, avgVars>>

\* with open(path, 'rt') as lod: text_loader(lod)
TextLoad ==
    /\ t_file.exists
    /\ ~ t_out.loaded
    /\ t_out' = [loaded |-> TRUE, value |-> text_loader(t_file.text)]
    /\ UNCHANGED <<t_in, t_file>>
    /\ UNCHANGED <<cacheVars, watchVars, avgVars>>

NextText == TextDump \/ TextLoad

(***************************************************************************)
(* decorators.py: watch_for.                                               *)
(***************************************************************************)
\* the longest tuple of signals
MaxSignals == 2

\* a part of Python's exception hierarchy: class -> base class
ExcClasses == {"BaseException", "Exception", "ArithmeticError", "ZeroDivisionError",
               "LookupError", "KeyError", "TypeError", "StopIteration"}
Base(cls) ==
    CASE cls = "Exception" -> "BaseException"
      [] cls = "ArithmeticError" -> "Exception"
      [] cls = "ZeroDivisionError" -> "ArithmeticError"
      [] cls = "LookupError" -> "Exception"
      [] cls = "KeyError" -> "LookupError"
      [] cls = "TypeError" -> "Exception"
      [] cls = "StopIteration" -> "Exception"
      [] OTHER -> "object"

\* the classes a signal is drawn from: "int" is a class that is no exception
Classes == ExcClasses \cup {"int"}

RECURSIVE issubclass(_, _)
issubclass(cls, of) ==
    IF cls = of THEN TRUE
    ELSE IF cls = "object" THEN FALSE
    ELSE issubclass(Base(cls), of)

\* the name of the wrapped function
FuncName == "average"

\* str(sig): a KeyError shows the repr of its argument
str(sig) ==
    IF sig.type = "KeyError" THEN <<"'">> \o sig.msg \o <<"'">> ELSE sig.msg

\* what the wrapped function does in one call: return a value, or raise
Messages == {<<"division by zero">>, <<"x">>}
Raisable == {"ZeroDivisionError", "ArithmeticError", "KeyError", "TypeError", "Exception"}
Behaviours ==
    [raised : {FALSE}, value : {1, 2}, type : {None}, msg : {<<>>}]
    \cup [raised : {TRUE}, value : {0}, type : Raisable, msg : Messages]

\* watch_for(*signals): the check made before the decorator is returned
watch_for(signals) ==
    IF ~ \A i \in 1..Len(signals) : issubclass(signals[i], "BaseException")
    THEN "TypeError"
    ELSE "decorator"

\* the first signal the raised exception is an instance of, not the one it is
FirstInstance(signals, cls) ==
    IF \E i \in 1..Len(signals) : issubclass(cls, signals[i])
    THEN CHOOSE i \in 1..Len(signals) :
            issubclass(cls, signals[i]) /\ \A j \in 1..(i-1) : ~ issubclass(cls, signals[j])
    ELSE 0

\* is_sig = rpartial(op.is_, type(sig)); next(filter(is_sig, signals)):
\* the index of the first signal that is type(sig), 0 when next() finds none
FirstIs(signals, cls) ==
    IF \E i \in 1..Len(signals) : signals[i] = cls
    THEN CHOOSE i \in 1..Len(signals) :
            signals[i] = cls /\ \A j \in 1..(i-1) : signals[j] # cls
    ELSE 0

\* except(signals): the raised exception is an instance of one of the signals
caught(signals, cls) == \E i \in 1..Len(signals) : issubclass(cls, signals[i])

\* the wrapper of watch_for around a function that behaves as b
watch_wrapper(signals, b) ==
    IF ~ b.raised
    THEN [raised |-> FALSE, value |-> b.value, type |-> None, msg |-> <<>>]
    ELSE IF ~ caught(signals, b.type)
    THEN [raised |-> TRUE, value |-> 0, type |-> b.type, msg |-> b.msg]
    ELSE IF FirstIs(signals, b.type) = 0
    THEN [raised |-> TRUE, value |-> 0, type |-> "StopIteration", msg |-> <<>>]
    ELSE [raised |-> TRUE, value |-> 0, type |-> signals[FirstIs(signals, b.type)],
          msg |-> <<"(- ", FuncName, " -): ">> \o str(b)]

NoWatchCall ==
    [called |-> FALSE, b |-> [raised |-> FALSE, value |-> 1, type |-> None, msg |-> <<>>],
     r |-> [raised |-> FALSE, value |-> 1, type |-> None, msg |-> <<>>]]

InitWatch ==
    /\ w_signals \in SeqsUpTo(Classes, MaxSignals)
    /\ w_deco = None
    /\ w_last = NoWatchCall

IdleWatch ==
    /\ w_signals = <<>>
    /\ w_deco = None
    /\ w_last = NoWatchCall

\* @watch_for(*signals) applied to a function
WatchDecorate ==
    /\ w_deco = None
    /\ w_deco' = watch_for(w_signals)
    /\ UNCHANGED <<w_signals, w_last>>
    /\ UNCHANGED <<cacheVars, textVars, avgVars>>

\* one call of the wrapper
WatchCall(b) ==
    /\ w_deco = "decorator"
    /\ w_last' = [called |-> TRUE, b |-> b, r |-> watch_wrapper(w_signals, b)]
    /\ UNCHANGED <<w_signals, w_deco>>
    /\ UNCHANGED <<cacheVars, textVars, avgVars>>

NextWatch ==
    \/ WatchDecorate
    \/ \E b \in Behaviours : WatchCall(b)

(***************************************************************************)
(* de.py: AverageRuntime.  The averages are floats in the code; here they  *)
(* are exact fractions [n, d] in lowest terms, so rounding plays no part.  *)
(***************************************************************************)
RECURSIVE Gcd(_, _)
Gcd(a, b) == IF b = 0 THEN a ELSE Gcd(b, a % b)

Frac(n, d) == [n |-> n \div Gcd(n, d), d |-> d \div Gcd(n, d)]
FracAdd(p, q) == Frac(p.n * q.d + q.n * p.d, p.d * q.d)
FracMul(p, q) == Frac(p.n * q.n, p.d * q.d)
Zero == Frac(0, 1)

RECURSIVE Sum(_)
Sum(seq) == IF seq = <<>> THEN 0 ELSE Head(seq) + Sum(Tail(seq))

\* AverageRuntime.__update(obs): the new (_calls, _xt, _xtm1)
update(c, x, xm1, obs) ==
    [calls |-> c + 1,
     xt    |-> FracAdd(FracMul(Frac(c, c + 1), xm1), FracMul(Frac(1, c + 1), Frac(obs, 1))),
     xtm1  |-> x]

\* AverageRuntime.__init__: reset()
InitAvg ==
    /\ calls = 0
    /\ xt = Zero
    /\ xtm1 = Zero
    /\ observed = <<>>
    /\ returned = Zero

IdleAvg == InitAvg

\* AverageRuntime.__call__: the wrapped function ran for obs time units
AvgCall(obs) ==
    /\ calls < MaxRuns
    /\ calls' = update(calls, xt, xtm1, obs).calls
    /\ xt' = update(calls, xt, xtm1, obs).xt
    /\ xtm1' = update(calls, xt, xtm1, obs).xtm1
    /\ observed' = Append(observed, obs)
    /\ returned' = xt'
    /\ UNCHANGED <<cacheVars, textVars, watchVars>>

\* AverageRuntime.reset, also reached by ~
reset ==
    /\ calls' = 0
    /\ xt' = Zero
    /\ xtm1' = Zero
    /\ observed' = <<>>
    /\ UNCHANGED returned
    /\ UNCHANGED <<cacheVars, textVars, watchVars>>

NextAvg ==
    \/ \E obs \in 0..MaxObs : AvgCall(obs)
    \/ reset

(***************************************************************************)
(* The specifications: one per decorator, the others left idle.            *)
(***************************************************************************)
Init == InitCache /\ IdleText /\ IdleWatch /\ IdleAvg
Next == NextCache
Spec == Init /\ [][Next]_vars

TextInit == InitText /\ IdleCache /\ IdleWatch /\ IdleAvg
SpecText == TextInit /\ [][NextText]_vars

WatchInit == InitWatch /\ IdleCache /\ IdleText /\ IdleAvg
SpecWatch == WatchInit /\ [][NextWatch]_vars

AvgInit == InitAvg /\ IdleCache /\ IdleText /\ IdleWatch
SpecAvg == AvgInit /\ [][NextAvg]_vars

(***************************************************************************)
(* The claims about autocache, under Spec.                                 *)
(***************************************************************************)
\* the latest call took the except branch: forced, or no artifact to open
Missed == last.called /\ (last.overwrite \/ ~ last.existed)

\* nothing failed on the way of the latest call through the except branch:
\* the handler returned, the file could be opened for writing and written
Persistable ==
    /\ ~ handler(last.args).raised
    /\ DirExists(last.path)
    /\ last.wopen = "ok"
    /\ last.write = "ok"
    /\ (cfg.write_as = "t" \/ handler(last.args).out = <<>>)

\* C1: with the default text loader and dumper, once a call with cache_to = P
\* has returned, a following call with the same P and overwrite = False
\* returns the same value and does not invoke the handler.
C1_SecondCallReturnsSame ==
    [][ ( /\ cfg.read_as = "t" /\ cfg.write_as = "t"
          /\ last.called /\ last.exc = None
          /\ last'.path = last.path /\ ~ last'.overwrite )
        => ( /\ last'.exc = None
             /\ last'.value = last.value
             /\ last'.hcalls = 0 ) ]_vars

\* C2: a call with overwrite = True invokes the handler exactly once, with or
\* without an artifact at cache_to, never opens or loads the artifact, and when
\* it returns the artifact holds the serialization of the value the handler
\* just returned, which is also the value returned; it returns whenever the
\* handler returns and the file can be written.
C2_OverwriteAlwaysComputes ==
    (last.called /\ last.overwrite) =>
        /\ last.hcalls = 1
        /\ last.hargs = last.args
        /\ ~ last.read
        /\ last.opens <= 1
        /\ (last.opens = 1 => ~ handler(last.args).raised)
        /\ (Persistable => last.exc = None)
        /\ (last.exc = None =>
              /\ fs[last.path] = File(text_dumper(handler(last.args).out))
              /\ last.value = handler(last.args).out)

\* a forced call over an artifact that held something else has returned
C2_Witness ==
    /\ last.called /\ last.overwrite /\ last.existed /\ last.exc = None
    /\ last.value = << <<"a", NL>>, <<"b", NL>> >>
    /\ fs[last.path].text = <<"a", NL, "b", NL>>

\* a configuration the decorator has to refuse
BadConfiguration(c) ==
    \/ ~ callable(c.loader) \/ ~ callable(c.dumper) \/ ~ callable(c.opener)
    \/ c.read_as \notin {"b", "t"} \/ c.write_as \notin {"b", "t"}

\* C3: decorating with a loader, dumper or opener that is not callable, or with
\* a read or write mode other than 'b' and 't', raises TypeError or ValueError
\* at decoration: no wrapper exists, so no call is ever made, the handler never
\* runs and no file is opened.  A wrapper that exists never raises the errors
\* of a bad configuration (calling what is not callable, an invalid mode).
C3_ConfigurationFailsFast ==
    /\ (deco # None /\ BadConfiguration(cfg)) =>
          /\ deco \in {"TypeError", "ValueError"}
          /\ last = NoCall
    /\ (deco \in {"TypeError", "ValueError"}) => last = NoCall
    /\ last.called =>
          last.exc \notin {"TypeError: not callable", "ValueError: invalid mode"}

\* the decorator has refused the write mode "text"
C3_Witness ==
    /\ deco = "ValueError" /\ cfg.write_as = "text" /\ cfg.read_as = "t"
    /\ last = NoCall

\* C6: a call with overwrite = False and no artifact at cache_to invokes the
\* handler exactly once with the arguments of the call and never loads; the
\* file-not-found of the read side does not reach the caller (a
\* FileNotFoundError that does comes from opening for writing in a directory
\* that does not exist); when the handler returns and the file can be written
\* the call returns the fresh result and the artifact holds its serialization.
C6_MissComputesAndPersists ==
    (last.called /\ ~ last.overwrite /\ ~ last.existed) =>
        /\ last.hcalls = 1
        /\ last.hargs = last.args
        /\ ~ last.read
        /\ (last.exc = "FileNotFoundError" => ~ DirExists(last.path))
        /\ (Persistable =>
              /\ last.exc = None
              /\ last.value = handler(last.args).out
              /\ ~ last.bytes
              /\ fs[last.path] = File(text_dumper(handler(last.args).out)))

\* a cache miss has computed, persisted and returned
C6_Witness ==
    /\ last.called /\ ~ last.overwrite /\ ~ last.existed /\ last.exc = None
    /\ last.hcalls = 1
    /\ last.value = << <<"a">>, <<"b">> >>
    /\ fs[last.path] = File(<<"a", "b">>)

\* C8: when the handler has returned and opening cache_to for writing, or
\* dumping, fails with an error other than file-not-found, the call raises that
\* error: it returns no value, and the handler has run once, not twice.
C8_PersistenceErrorsPropagate ==
    (Missed /\ ~ handler(last.args).raised /\ DirExists(last.path)) =>
        /\ (last.wopen = "PermissionError" =>
              /\ last.exc = "PermissionError"
              /\ last.value = <<>>
              /\ last.hcalls = 1
              /\ last.opens <= 2)
        /\ ((last.write = "OSError" /\ (cfg.write_as = "t" \/ handler(last.args).out = <<>>)) =>
              /\ last.exc = "OSError"
              /\ last.value = <<>>
              /\ last.hcalls = 1
              /\ last.opens <= 2)

\* a dump has failed after the handler returned a value
C8_Witness ==
    /\ Missed /\ last.write = "OSError" /\ last.exc = "OSError"
    /\ last.hret = << <<"a", NL>>, <<"b", NL>> >>
    /\ last.hcalls = 1

\* C9: a wrapper call never removes an artifact; an artifact appears only by a
\* call on its path that ran the handler, and the first call on a path without
\* artifact creates one when the handler returns and the file can be opened
\* for writing; a call with overwrite = False on a path that has an artifact
\* loads it and does not run the handler.
C9_ArtifactLifecycle ==
    [][ /\ \A p \in Paths : fs[p].exists => fs'[p].exists
        /\ \A p \in Paths : (~ fs[p].exists /\ fs'[p].exists) =>
              (last'.path = p /\ last'.hcalls = 1 /\ ~ last'.read)
        /\ ( /\ deco = "wrapper" /\ ~ fs[last'.path].exists
             /\ ~ handler(last'.args).raised
             /\ DirExists(last'.path) /\ last'.wopen = "ok" )
           => fs'[last'.path].exists
        /\ (deco = "wrapper" /\ fs[last'.path].exists /\ ~ last'.overwrite)
           => (last'.read /\ last'.hcalls = 0 /\ last'.exc = None)
      ]_vars

\* an artifact has been loaded by a call with overwrite = False
C9_Witness ==
    /\ last.called /\ last.existed /\ ~ last.overwrite
    /\ last.read /\ last.hcalls = 0
    /\ last.value = << <<"a", NL>> >>

(***************************************************************************)
(* The claim about the default dumper and loader, under SpecText.          *)
(***************************************************************************)
\* C7: a list of text lines dumped with text_dumper and loaded with
\* text_loader comes back equal to the original.
C7_TextRoundTrip == t_out.loaded => t_out.value = t_in

(***************************************************************************)
(* The claims about watch_for, under SpecWatch.                            *)
(***************************************************************************)
\* the class is one of the signals itself
Listed(signals, cls) == \E i \in 1..Len(signals) : signals[i] = cls

\* C4: when the wrapped function raises an exception whose type is one of the
\* signals, the wrapper raises an exception of that very type, built from the
\* text "(- <name> -): " followed by str() of the original; when the wrapped
\* function returns, the wrapper returns its result.
C4_ListedIsReraisedWithContext ==
    w_last.called =>
        /\ (w_last.b.raised /\ Listed(w_signals, w_last.b.type)) =>
              /\ w_last.r.raised
              /\ w_last.r.type = w_last.b.type
              /\ w_last.r.msg = <<"(- ", FuncName, " -): ">> \o str(w_last.b)
        /\ (~ w_last.b.raised) =>
              /\ ~ w_last.r.raised
              /\ w_last.r.value = w_last.b.value

\* a ZeroDivisionError listed after its base class came back as itself
C4_Witness ==
    /\ w_last.called
    /\ w_signals = <<"ArithmeticError", "ZeroDivisionError">>
    /\ w_last.b.raised /\ w_last.b.type = "ZeroDivisionError"
    /\ w_last.r.type = "ZeroDivisionError"
    /\ w_last.r.msg = <<"(- ", "average", " -): ", "division by zero">>

\* C5: an exception whose type is none of the signals, a subclass of a signal
\* included, reaches the caller with its type and its message.
C5_UnlistedPropagates ==
    (w_last.called /\ w_last.b.raised /\ ~ Listed(w_signals, w_last.b.type)) =>
        /\ w_last.r.raised
        /\ w_last.r.type = w_last.b.type
        /\ w_last.r.msg = w_last.b.msg

(***************************************************************************)
(* The claim about AverageRuntime, under SpecAvg.                          *)
(***************************************************************************)
\* C10: after n >= 1 calls since construction or the last reset the call
\* count is n and the average returned by the n-th call is the mean of the n
\* observed runtimes; after a reset the count and the averages are 0.
C10_RunningAverage ==
    /\ calls = Len(observed)
    /\ calls >= 1 => returned = Frac(Sum(observed), calls)
    /\ calls = 0 => (xt = Zero /\ xtm1 = Zero)

(***************************************************************************)
(* Further claims about autocache, under Spec.                             *)
(***************************************************************************)
\* C11: the cache key is the path alone: a call with overwrite = False on a
\* path that has an artifact returns what the loader reads from it, whatever
\* the arguments of the call, and does not run the handler.
C11_KeyIsThePath ==
    (last.called /\ ~ last.overwrite /\ last.existed) =>
        /\ last.hcalls = 0
        /\ last.read
        /\ last.exc = None
        /\ last.value = text_loader(fs[last.path].text)
        /\ last.bytes = (cfg.read_as = "b" /\ last.value # <<>>)

\* an artifact made for other arguments was returned to a call whose own
\* arguments would have made the handler raise
C11_Witness ==
    /\ last.called /\ ~ last.overwrite /\ last.existed
    /\ last.args = Boom
    /\ last.exc = None /\ last.hcalls = 0
    /\ last.value = << <<"a", NL>>, <<"b", NL>> >>

\* C12: when the handler raises in a call that takes the except branch (no
\* artifact, or overwrite = True), the call raises the handler's exception and
\* leaves every file as it was: no artifact is created, and an existing one
\* keeps its content.
C12_HandlerErrorLeavesFiles ==
    [][ ( /\ deco = "wrapper"
          /\ (last'.overwrite \/ ~ fs[last'.path].exists)
          /\ handler(last'.args).raised )
        => ( /\ fs' = fs
             /\ last'.exc = handler(last'.args).exc
             /\ last'.hcalls = 1
             /\ last'.opens = (IF last'.overwrite THEN 0 ELSE 1) ) ]_vars

\* the handler has raised in a forced call over an artifact, which is intact
C12_Witness ==
    /\ last.called /\ last.overwrite /\ last.existed
    /\ last.args = Boom /\ last.exc = "RuntimeError"
    /\ fs[last.path] = File(<<"a", NL, "b", NL>>)

\* C13: a wrapper call changes the artifact at a path only into the complete
\* serialization of the value the handler returned in that call: a failed
\* persistence leaves no empty or partial artifact and keeps the content the
\* artifact had.
C13_ArtifactIsAlwaysComplete ==
    [][ \A p \in Paths :
           fs'[p] # fs[p] =>
              /\ fs'[p].exists
              /\ last'.path = p
              /\ ~ handler(last'.args).raised
              /\ fs'[p].text = text_dumper(handler(last'.args).out) ]_vars

====
